---------------------------- MODULE Spec2Model ----------------------------
(***************************************************************************)
(* Model of db-tycoon-utilities:                                           *)
(*   dbt_generate_source_models.py  (scanner, generator, emitter, main)    *)
(*   replace_source_func_with_ref.py (rewriter)                            *)
(*                                                                         *)
(* Text is a sequence of tokens; every token stands for its literal        *)
(* characters ("{{", "source", "'", " ", ...).  The two regular            *)
(* expressions of the source are kept item by item and run by a            *)
(* backtracking matcher with Python's priorities (greedy, leftmost).       *)
(***************************************************************************)
EXTENDS Integers, Sequences, FiniteSets, TLC

VARIABLES
    fs,         \* file system: path record -> content (token sequence)
    doc,        \* what yaml.safe_load returns for the definition document
    pc,         \* "idle" (no process running), "gen" (generator loop), "text"
    argv,       \* sys.argv of the last generator process
    cur,        \* locals of the running generator function
    queue,      \* tables the generator loop has still to visit
    trace,      \* effects of the current / last process, in order
    fs0,        \* the file system when the current / last process began
    exitCode,   \* exit status of the last process (-1: none finished yet)
    runs,       \* processes started so far
    conf,       \* the project the commands are run in: source, directories
    text,       \* SpecText: content of the file under test
    shape,      \* SpecText: the expressions the content was rendered from
    target,     \* SpecText: source_name given to the scanner
    scanOut,    \* SpecText: tables the scanner reports for text
    rwOut,      \* SpecText: content the rewriter leaves
    done        \* SpecText: which of the two functions have been applied

vars == <<fs, doc, pc, argv, cur, queue, trace, fs0, exitCode, runs, conf,
          text, shape, target, scanOut, rwOut, done>>

---------------------------------------------------------------------------
(* Bounds *)

MaxRuns == 2
MaxExprs == 2
MaxTables == 2

---------------------------------------------------------------------------
(* Characters *)

WS == {" ", "\n"}
Quote == {"'", "\""}
Letters == {"a", "b", "t", "u"}
Alphabet ==
    WS \cup Quote \cup Letters \cup
    {"{{", "}}", "source", "ref", "(", ")", ",", "_", "select", "with", "as", "noise"}
NotQuote == Alphabet \ Quote

None == <<"None">>

---------------------------------------------------------------------------
(* Regular expressions: a pattern is a sequence of items *)

Lit(c) == [k |-> "lit", c |-> c, min |-> 1, g |-> 0]
Opt(c) == [k |-> "opt", c |-> c, min |-> 0, g |-> 0]
Star(c) == [k |-> "rep", c |-> c, min |-> 0, g |-> 0]
Group(c, n) == [k |-> "rep", c |-> c, min |-> 1, g |-> n]

LitSeq(s) == [i \in 1..Len(s) |-> Lit({s[i]})]

NoMatch == [ok |-> FALSE, end |-> 0, g1 |-> <<0, 0>>, g2 |-> <<0, 0>>]

\* number of consecutive characters of class c from position p on
RECURSIVE RunLen(_, _, _)
RunLen(txt, p, c) ==
    IF p <= Len(txt) /\ txt[p] \in c THEN 1 + RunLen(txt, p + 1, c) ELSE 0

\* Python's re: items k.. of pat against txt from position p; a repetition
\* takes the longest run first and gives back one character at a time, an
\* optional item is tried present first.
RECURSIVE MatchFrom(_, _, _, _), TryRep(_, _, _, _, _)
MatchFrom(pat, txt, k, p) ==
    IF k > Len(pat)
    THEN [ok |-> TRUE, end |-> p, g1 |-> <<0, 0>>, g2 |-> <<0, 0>>]
    ELSE LET it == pat[k]
             here == p <= Len(txt) /\ txt[p] \in it.c
         IN  CASE it.k = "lit" ->
                    IF here THEN MatchFrom(pat, txt, k + 1, p + 1) ELSE NoMatch
               [] it.k = "opt" ->
                    IF here
                    THEN LET r == MatchFrom(pat, txt, k + 1, p + 1)
                         IN  IF r.ok THEN r ELSE MatchFrom(pat, txt, k + 1, p)
                    ELSE MatchFrom(pat, txt, k + 1, p)
               [] it.k = "rep" ->
                    TryRep(pat, txt, k, p, RunLen(txt, p, it.c))

TryRep(pat, txt, k, p, n) ==
    IF n < pat[k].min
    THEN NoMatch
    ELSE LET r == MatchFrom(pat, txt, k + 1, p + n)
         IN  IF r.ok
             THEN CASE pat[k].g = 1 -> [r EXCEPT !.g1 = <<p, p + n>>]
                    [] pat[k].g = 2 -> [r EXCEPT !.g2 = <<p, p + n>>]
                    [] OTHER -> r
             ELSE TryRep(pat, txt, k, p, n - 1)

Slice(txt, span) == SubSeq(txt, span[1], span[2] - 1)

\* re.finditer / re.findall: leftmost matches, not overlapping, in order
RECURSIVE FindIter(_, _, _)
FindIter(pat, txt, p) ==
    IF p > Len(txt)
    THEN <<>>
    ELSE LET r == MatchFrom(pat, txt, 1, p)
         IN  IF r.ok
             THEN <<[g0 |-> SubSeq(txt, p, r.end - 1),
                     g1 |-> Slice(txt, r.g1),
                     g2 |-> Slice(txt, r.g2)]>> \o FindIter(pat, txt, r.end)
             ELSE FindIter(pat, txt, p + 1)

\* re.search
Search(pat, txt) == \E p \in 1..Len(txt) : MatchFrom(pat, txt, 1, p).ok

\* str.replace(old, new): every occurrence of old, left to right, not overlapping
IsAt(txt, p, old) ==
    /\ p + Len(old) - 1 <= Len(txt)
    /\ SubSeq(txt, p, p + Len(old) - 1) = old

RECURSIVE ReplaceFrom(_, _, _, _)
ReplaceFrom(txt, p, old, new) ==
    IF p > Len(txt)
    THEN <<>>
    ELSE IF IsAt(txt, p, old)
         THEN new \o ReplaceFrom(txt, p + Len(old), old, new)
         ELSE <<txt[p]>> \o ReplaceFrom(txt, p + 1, old, new)

StrReplace(txt, old, new) == ReplaceFrom(txt, 1, old, new)

---------------------------------------------------------------------------
(* dbt_generate_source_models.py: the scanner's pattern and per-file step *)

\* a variant that allows no whitespace inside the call
ScannerPatternTight(source_name) ==
    <<Lit({"source"}), Lit({"("}), Lit(Quote)>>
    \o LitSeq(source_name)
    \o <<Opt(Quote), Lit({","}), Lit(Quote), Group(NotQuote, 2), Opt(Quote), Lit({")"})>>

\* rf"source\s*\(\s*['\"]({re.escape(source_name)})['\"]?\s*,\s*['\"]([^'\"]+)['\"]?\s*\)"
ScannerPattern(source_name) ==
    <<Lit({"source"}), Star(WS), Lit({"("}), Star(WS), Lit(Quote)>>
    \o LitSeq(source_name)
    \o <<Opt(Quote), Star(WS), Lit({","}), Star(WS), Lit(Quote),
         Group(NotQuote, 2), Opt(Quote), Star(WS), Lit({")"})>>

\* pattern.findall(content): the (group 1, group 2) pairs; group 1 is the
\* literal source_name the pattern was compiled with
ScannerFindAll(content, source_name) ==
    LET ms == FindIter(ScannerPattern(source_name), content, 1)
    IN  [i \in 1..Len(ms) |-> <<source_name, ms[i].g2>>]

\* for match in matches: if match[0] == source_name: used_sources[match[1]].add(...)
FileTables(content, source_name) ==
    LET ms == ScannerFindAll(content, source_name)
    IN  {ms[i][2] : i \in {j \in 1..Len(ms) : ms[j][1] = source_name}}

---------------------------------------------------------------------------
(* replace_source_func_with_ref.py: patterns and the per-file rewrite *)

\* r"{{\s*source\s*\("
SourcePattern == <<Lit({"{{"}), Star(WS), Lit({"source"}), Star(WS), Lit({"("})>>

\* r"{{\s*source\s*\(\s*(?:\"?\'?([^\"\']+)\"?\'?\s*,\s*\"?\'?([^\"\']+)\"?\'?)\s*\)\s*}}"
RewritePattern ==
    <<Lit({"{{"}), Star(WS), Lit({"source"}), Star(WS), Lit({"("}), Star(WS),
      Opt({"\""}), Opt({"'"}), Group(NotQuote, 1), Opt({"\""}), Opt({"'"}),
      Star(WS), Lit({","}), Star(WS),
      Opt({"\""}), Opt({"'"}), Group(NotQuote, 2), Opt({"\""}), Opt({"'"}),
      Star(WS), Lit({")"}), Star(WS), Lit({"}}"})>>

\* a variant that joins source and table with a single underscore
NewRefOneUnderscore(source_name, table_name) ==
    <<"{{", " ", "ref", "(", "'", "source", "_">> \o source_name
    \o <<"_">> \o table_name \o <<"'", ")", " ", "}}">>

\* f"{{{{ ref('source_{source_name}__{table_name}') }}}}"
NewRef(source_name, table_name) ==
    <<"{{", " ", "ref", "(", "'", "source", "_">> \o source_name
    \o <<"_", "_">> \o table_name \o <<"'", ")", " ", "}}">>

\* for match in matches: content = content.replace(match.group(0), new_ref);
\* the iterator keeps reading the string it was created on
RECURSIVE ReplaceAll(_, _, _)
ReplaceAll(content, ms, i) ==
    IF i > Len(ms)
    THEN content
    ELSE ReplaceAll(StrReplace(content, ms[i].g0, NewRef(ms[i].g1, ms[i].g2)), ms, i + 1)

RewriteMatches(content) == FindIter(RewritePattern, content, 1)

---------------------------------------------------------------------------
(* Paths and the file tree.  A path is a directory (the sequence of        *)
(* directory names below the project root, which is itself a named         *)
(* directory such as ./models) and a file name (a token sequence).         *)

Path(dir, name) == [dir |-> dir, name |-> name]

IsPrefix(d, e) == Len(d) <= Len(e) /\ SubSeq(e, 1, Len(d)) = d

\* file.endswith(".sql")
EndsWithSql(name) == Len(name) > 0 /\ name[Len(name)] = ".sql"

\* os.walk: the sub-directories and the files of one directory
SubDirs(f, dir) ==
    {p.dir[Len(dir) + 1] : p \in {q \in DOMAIN f : Len(q.dir) > Len(dir) /\ IsPrefix(dir, q.dir)}}

FilesIn(f, dir) == {p \in DOMAIN f : p.dir = dir}

\* open(file_path, "w"); f.write(content)
WriteFile(f, p, content) == (p :> content) @@ f

\* some enumeration of a finite set (os.walk yields in listing order)
RECURSIVE SetToSeq(_)
SetToSeq(S) ==
    IF S = {} THEN <<>> ELSE LET x == CHOOSE y \in S : TRUE IN <<x>> \o SetToSeq(S \ {x})

Perms(S) == {q \in [1..Cardinality(S) -> S] : \A x \in S : \E i \in DOMAIN q : q[i] = x}

---------------------------------------------------------------------------
(* Events of a process, in the order they happen *)

NoPath == Path(<<>>, <<>>)

Ev(ev, s, t, path, txt) == [ev |-> ev, s |-> s, t |-> t, path |-> path, txt |-> txt]

Events(kind) == SelectSeq(trace, LAMBDA e : e.ev = kind)

---------------------------------------------------------------------------
(* dbt_generate_source_models.py *)

\* a variant that walks into every directory
RECURSIVE ScanWalkAll(_, _)
ScanWalkAll(f, root) ==
    {p \in FilesIn(f, root) : EndsWithSql(p.name)}
    \cup UNION {ScanWalkAll(f, root \o <<d>>) : d \in SubDirs(f, root)}

\* os.walk(directory) with dirs.remove("sources"): the .sql files opened
RECURSIVE ScanWalk(_, _)
ScanWalk(f, root) ==
    LET dirs == SubDirs(f, root) \ {"sources"}
    IN  {p \in FilesIn(f, root) : EndsWithSql(p.name)}
        \cup UNION {ScanWalk(f, root \o <<d>>) : d \in dirs}

\* get_sources_used_with_source_func: table name -> set of file paths
GetSourcesUsed(f, directory, source_name) ==
    LET visited == ScanWalk(f, directory)
        tabs == UNION {FileTables(f[p], source_name) : p \in visited}
    IN  [t \in tabs |-> {p \in visited : t \in FileTables(f[p], source_name)}]

Marker == <<"with", " ", "source">>

\* str.find: position of the first occurrence, 0 where Python gives -1
RECURSIVE FindFrom(_, _, _)
FindFrom(txt, sub, p) ==
    IF p + Len(sub) - 1 > Len(txt) THEN 0
    ELSE IF IsAt(txt, p, sub) THEN p ELSE FindFrom(txt, sub, p + 1)

\* str.strip()
RECURSIVE LStrip(_), RStrip(_)
LStrip(txt) == IF txt # <<>> /\ Head(txt) \in WS THEN LStrip(Tail(txt)) ELSE txt
RStrip(txt) ==
    IF txt # <<>> /\ txt[Len(txt)] \in WS THEN RStrip(SubSeq(txt, 1, Len(txt) - 1)) ELSE txt
Strip(txt) == RStrip(LStrip(txt))

\* a variant that returns the output whether or not the marker is there
BuildSqlQueryAnyOutput(full_output) == Strip(full_output)

\* build_sql_query, from the captured stdout on
BuildSqlQuery(full_output) ==
    LET start_index == FindFrom(full_output, Marker, 1)
    IN  IF start_index # 0
        THEN Strip(SubSeq(full_output, start_index, Len(full_output)))
        ELSE None

\* `if sql_query:`
Truthy(sql_query) == sql_query # None /\ sql_query # <<>>

\* what `dbt run-operation generate_base_model` may print for (source, table)
GeneratedSql(source_name, table_name) ==
    Marker \o <<" ", "as", " ", "(", "select", " ", "{{", " ", "source", "(", "'">>
    \o source_name \o <<"'", ",", " ", "'">> \o table_name \o <<"'", ")", " ", "}}", ")">>

DbtOutputs(source_name, table_name) ==
    { <<"noise", "\n", "with", " ", "as">>,
      <<"noise", "\n">> \o GeneratedSql(source_name, table_name) \o <<"\n">> }

\* f"source_{source_name}__{table_name}.sql" in generate_source_models_from_yml
YmlFileName(source_name, table_name) ==
    <<"source", "_">> \o source_name \o <<"_", "_">> \o table_name \o <<".sql">>

\* f"source_{source_name}__{table_name}.sql" in generate_sql_files_from_used_sources
UsedFileName(source_name, table_name) ==
    <<"source", "_">> \o source_name \o <<"_", "_">> \o table_name \o <<".sql">>

\* a variant that takes the tables of every source of the document
RECURSIVE YmlTablesAnySource(_, _, _)
YmlTablesAnySource(sources, source_name, i) ==
    IF i > Len(sources)
    THEN <<>>
    ELSE [j \in 1..Len(sources[i].tables) |-> sources[i].tables[j].name]
         \o YmlTablesAnySource(sources, source_name, i + 1)

\* for source in yaml_content["sources"]: if source["name"] == source_name:
\*     for table in source["tables"]: table["name"]
RECURSIVE YmlTables(_, _, _)
YmlTables(sources, source_name, i) ==
    IF i > Len(sources)
    THEN <<>>
    ELSE (IF sources[i].name = source_name
          THEN [j \in 1..Len(sources[i].tables) |-> sources[i].tables[j].name]
          ELSE <<>>)
         \o YmlTables(sources, source_name, i + 1)

NoCur ==
    [mode |-> "none", source_name |-> <<>>, directory |-> <<>>, output_dir |-> <<>>,
     tables |-> <<>>, used_sources |-> <<>>]

GeneratorScript == "dbt_generate_source_models.py"
RewriterScript == "replace_source_func_with_ref.py"

\* logging.error(...); sys.exit(1)
ExitWithError(a) ==
    /\ argv' = a
    /\ exitCode' = 1
    /\ trace' = <<Ev("error", <<>>, <<>>, NoPath, <<>>)>>
    /\ pc' = "idle"
    /\ cur' = NoCur
    /\ queue' = <<>>
    /\ UNCHANGED <<fs, doc>>

\* main -> generate_sql_files_from_used_sources, up to the loop
StartUsedSources(a) ==
    LET source_name == a[3]
        project_directory == a[4]
        output_directory == a[5]
        used_sources == GetSourcesUsed(fs, project_directory, source_name)
    IN  \E order \in Perms(DOMAIN used_sources) :
            /\ argv' = a
            /\ cur' = [mode |-> "used_sources", source_name |-> source_name,
                       directory |-> project_directory, output_dir |-> output_directory,
                       tables |-> order, used_sources |-> used_sources]
            /\ queue' = order
            /\ trace' = <<Ev("scan", source_name, <<>>, Path(project_directory, <<>>), <<>>),
                          Ev("mkdir", <<>>, <<>>, Path(output_directory, <<>>), <<>>)>>
            /\ pc' = "gen"
            /\ UNCHANGED <<fs, doc, exitCode>>

\* main -> generate_source_models_from_yml, up to the loops
StartYaml(a, yaml_content) ==
    LET source_name == a[3]
        yaml_file_path == a[4]
        output_dir == yaml_file_path.dir
        tables == YmlTables(yaml_content.sources, source_name, 1)
    IN  /\ argv' = a
        /\ doc' = yaml_content
        /\ cur' = [mode |-> "yaml", source_name |-> source_name,
                   directory |-> <<>>, output_dir |-> output_dir,
                   tables |-> tables, used_sources |-> <<>>]
        /\ queue' = tables
        /\ trace' = <<Ev("load", <<>>, <<>>, yaml_file_path, <<>>),
                      Ev("mkdir", <<>>, <<>>, Path(output_dir, <<>>), <<>>)>>
        /\ pc' = "gen"
        /\ UNCHANGED <<fs, exitCode>>

\* a variant that only rejects too few arguments
UsedSourcesArgcWrongLoose(a) == Len(a) < 5

\* `if len(sys.argv) != 5:` in used_sources mode
UsedSourcesArgcWrong(a) == Len(a) # 5

\* `if len(sys.argv) != 4:` in yaml mode
YamlArgcWrong(a) == Len(a) # 4

\* main(): sys.argv is a (a[1] is Python's sys.argv[0])
Main(a, yaml_content) ==
    /\ pc = "idle"
    /\ runs < MaxRuns
    /\ runs' = runs + 1
    /\ fs0' = fs
    /\ IF Len(a) < 3
       THEN ExitWithError(a)
       ELSE IF a[2] = "used_sources"
            THEN IF UsedSourcesArgcWrong(a) THEN ExitWithError(a) ELSE StartUsedSources(a)
            ELSE IF a[2] \in {"yaml", "yml"}
                 THEN IF YamlArgcWrong(a) THEN ExitWithError(a) ELSE StartYaml(a, yaml_content)
                 ELSE ExitWithError(a)
    /\ UNCHANGED <<conf, text, shape, target, scanOut, rwOut, done>>

\* one iteration of either generator loop: name the file, run dbt, write
GenFileName(mode, source_name, table_name) ==
    IF mode = "yaml"
    THEN YmlFileName(source_name, table_name)
    ELSE UsedFileName(source_name, table_name)

GenTable(full_output) ==
    /\ pc = "gen"
    /\ queue # <<>>
    /\ LET table_name == Head(queue)
           file_path == Path(cur.output_dir, GenFileName(cur.mode, cur.source_name, table_name))
           sql_query == BuildSqlQuery(full_output)
           invoke == Ev("invoke", cur.source_name, table_name, NoPath, full_output)
       IN  /\ full_output \in DbtOutputs(cur.source_name, table_name)
           /\ IF Truthy(sql_query)
              THEN /\ fs' = WriteFile(fs, file_path, sql_query)
                   /\ trace' = trace \o <<invoke,
                                 Ev("write", cur.source_name, table_name, file_path, sql_query)>>
              ELSE /\ fs' = fs
                   /\ trace' = trace \o
                         (IF sql_query = None
                          THEN <<invoke, Ev("warning", cur.source_name, table_name, NoPath, <<>>)>>
                          ELSE <<invoke>>)
    /\ queue' = Tail(queue)
    /\ UNCHANGED <<doc, pc, argv, cur, fs0, exitCode, runs>>
    /\ UNCHANGED <<conf, text, shape, target, scanOut, rwOut, done>>

\* the loop is over: the closing logging.info lines, main returns
GenFinish ==
    /\ pc = "gen"
    /\ queue = <<>>
    /\ pc' = "idle"
    /\ exitCode' = 0
    /\ trace' = Append(trace, Ev("info", <<>>, <<>>, NoPath, <<>>))
    /\ UNCHANGED <<fs, doc, argv, cur, queue, fs0, runs>>
    /\ UNCHANGED <<conf, text, shape, target, scanOut, rwOut, done>>

---------------------------------------------------------------------------
(* replace_source_func_with_ref.py *)

\* os.walk(project_dir): every .sql file below project_dir
RewriteWalk(f, project_dir) ==
    {p \in DOMAIN f : IsPrefix(project_dir, p.dir) /\ EndsWithSql(p.name)}

\* a variant that selects every .sql file
FindEverySqlFile(f, project_dir) == SetToSeq(RewriteWalk(f, project_dir))

\* find_files_with_source_refs
FindFilesWithSourceRefs(f, project_dir) ==
    SetToSeq({p \in RewriteWalk(f, project_dir) : Search(SourcePattern, f[p])})

\* `if matches:` on the iterator re.finditer returns
IterTruthy(ms) == TRUE

\* replace_sources_with_refs: the content written back
ReplaceSourcesWithRefs(content) ==
    LET matches == RewriteMatches(content)
    IN  IF IterTruthy(matches) THEN ReplaceAll(content, matches, 1) ELSE content

\* the events of replace_sources_with_refs(file_path)
FileEvents(file_path, content) ==
    LET ms == RewriteMatches(content)
    IN  [i \in 1..Len(ms) |->
            Ev("replace", ms[i].g1, ms[i].g2, file_path, NewRef(ms[i].g1, ms[i].g2))]
        \o <<Ev("rw_write", <<>>, <<>>, file_path, ReplaceSourcesWithRefs(content))>>

RECURSIVE ProcessFiles(_, _, _)
ProcessFiles(f, files, i) ==
    IF i > Len(files)
    THEN f
    ELSE ProcessFiles(WriteFile(f, files[i], ReplaceSourcesWithRefs(f[files[i]])), files, i + 1)

RECURSIVE ProcessEvents(_, _, _)
ProcessEvents(f, files, i) ==
    IF i > Len(files)
    THEN <<>>
    ELSE FileEvents(files[i], f[files[i]]) \o ProcessEvents(f, files, i + 1)

\* __main__: find the files, rewrite each, log the count
RewriterRun(project_directory) ==
    /\ pc = "idle"
    /\ runs < MaxRuns
    /\ runs' = runs + 1
    /\ fs0' = fs
    /\ LET files_to_process == FindFilesWithSourceRefs(fs, project_directory)
       IN  /\ fs' = ProcessFiles(fs, files_to_process, 1)
           /\ trace' = [i \in 1..Len(files_to_process) |->
                           Ev("select", <<>>, <<>>, files_to_process[i], <<>>)]
                       \o ProcessEvents(fs, files_to_process, 1)
                       \o <<Ev("info", <<>>, <<>>, NoPath, <<>>)>>
    /\ argv' = <<RewriterScript, Path(project_directory, <<>>)>>
    /\ cur' = [NoCur EXCEPT !.mode = "rewriter", !.directory = project_directory]
    /\ exitCode' = 0
    /\ UNCHANGED <<doc, pc, queue>>
    /\ UNCHANGED <<conf, text, shape, target, scanOut, rwOut, done>>

---------------------------------------------------------------------------
(* Inputs and initial trees *)

DocTables == <<<<"t">>, <<"u">>, <<"t", "u">>, <<"u", "t">>>>

Root == <<>>
Modes == {"used_sources", "yaml", "yml", "bogus"}

\* the projects the commands are run in
Projects ==
    { [source_name |-> <<"a">>, project_dir |-> Root, out_dir |-> <<"staging">>],
      [source_name |-> <<"a">>, project_dir |-> Root, out_dir |-> <<"sources", "a">>],
      [source_name |-> <<"b">>, project_dir |-> Root, out_dir |-> <<"staging">>],
      [source_name |-> <<"a">>, project_dir |-> <<"sources">>, out_dir |-> <<"sources", "a">>] }

\* the longest command line tried for a mode; shorter ones are its prefixes
FullArgv(mode, source_name, project_dir, d) ==
    IF mode = "used_sources"
    THEN <<GeneratorScript, mode, source_name, project_dir, d, "extra">>
    ELSE <<GeneratorScript, mode, source_name, Path(d, <<"sup", ".yml">>), "extra", "extra">>

ArgvSet ==
    {SubSeq(FullArgv(m, conf.source_name, conf.project_dir, conf.out_dir), 1, n) :
        m \in Modes \ {"bogus"}, n \in 1..6}
    \cup {SubSeq(FullArgv("bogus", conf.source_name, conf.project_dir, conf.out_dir), 1, n) :
            n \in 4..5}

\* declared table lists: distinct names, at most MaxTables of them, in
\* either order
TableLists ==
    {SubSeq(DocTables, 1, n) : n \in 0..MaxTables}
    \cup {[i \in 1..n |-> DocTables[n + 1 - i]] : n \in 0..MaxTables}

SourceEntry(name, tables) ==
    [name |-> name, tables |-> [i \in 1..Len(tables) |-> [name |-> tables[i]]]]

\* well-formed documents: a "sources" list with distinct source names
Docs ==
    {[sources |-> <<SourceEntry(<<"b">>, <<<<"u">>>>), SourceEntry(<<"a">>, ts)>>] :
        ts \in TableLists}
    \cup {[sources |-> <<SourceEntry(<<"a">>, <<<<"t">>>>)>>]}

EmptyDoc == [sources |-> <<>>]

\* the documents tried under each spelling of the mode
DocsFor(mode) ==
    IF mode = "yaml" THEN Docs
    ELSE {[sources |-> <<SourceEntry(<<"a">>, <<<<"t">>>>)>>]}

Call(open, s, t, close) ==
    <<"{{", " ", "source", "(">> \o open \o s \o close \o <<",", " ">>
    \o open \o t \o close \o <<")", " ", "}}">>

MartContents ==
    { <<"select", " ">> \o Call(<<"'">>, <<"a">>, <<"t">>, <<"'">>),
      Call(<<"'">>, <<"a">>, <<"t">>, <<"'">>) \o <<"\n">>
          \o Call(<<"\"">>, <<"a">>, <<"u">>, <<"\"">>),
      <<"select", " ">> \o Call(<<"'">>, <<"b">>, <<"t">>, <<"'">>),
      <<"select", " ", "{{", " ", "source", "(">>,
      <<"select", " ">> \o Call(<<>>, <<"a">>, <<"t">>, <<>>) }

MartFile == Path(<<"marts">>, <<"m1", ".sql">>)
NotesFile == Path(Root, <<"notes", ".txt">>)
ExtraFiles ==
    { Path(<<"sources", "a">>, <<"old", ".sql">>),
      Path(<<"marts", "sources">>, <<"deep", ".sql">>) }

InitTrees ==
    {(MartFile :> c) @@ (NotesFile :> Call(<<"'">>, <<"a">>, <<"t">>, <<"'">>)) :
        c \in MartContents}
    \cup {(MartFile :> <<"select", " ", "a">>)
          @@ (NotesFile :> Call(<<"'">>, <<"a">>, <<"t">>, <<"'">>))
          @@ (x :> Call(<<"'">>, <<"a">>, <<"u">>, <<"'">>)) : x \in ExtraFiles}

TextIdle ==
    /\ text = <<>>
    /\ shape = <<>>
    /\ target = <<>>
    /\ scanOut = {}
    /\ rwOut = <<>>
    /\ done = {}

Init ==
    /\ fs \in InitTrees
    /\ fs0 = fs
    /\ doc = EmptyDoc
    /\ pc = "idle"
    /\ argv = <<>>
    /\ cur = NoCur
    /\ queue = <<>>
    /\ trace = <<>>
    /\ exitCode = -1
    /\ runs = 0
    /\ conf \in Projects
    /\ TextIdle

ValidYaml(a) == Len(a) = 4 /\ a[2] \in {"yaml", "yml"}

RunGenerator ==
    \E a \in ArgvSet :
        \E yaml_content \in (IF ValidYaml(a) THEN DocsFor(a[2]) ELSE {EmptyDoc}) :
            Main(a, yaml_content)

RunDbt ==
    /\ queue # <<>>
    /\ \E out \in DbtOutputs(cur.source_name, Head(queue)) : GenTable(out)

RunRewriter == \E d \in {Root, <<"marts">>} : RewriterRun(d)

Next ==
    \/ RunGenerator
    \/ RunDbt
    \/ GenFinish
    \/ RunRewriter

Spec == Init /\ [][Next]_vars

---------------------------------------------------------------------------
(* SpecText: the scanner's and the rewriter's per-file step on one file    *)
(* whose content is rendered from a list of source(...) expressions        *)

QuoteOpts == {<<>>, <<"'">>, <<"\"">>}
ArgNames == {<<"a">>, <<"a", "b">>, <<"b", "a">>}
TableNames == {<<"t">>, <<"u">>}
Targets == {<<"a">>, <<"a", "b">>}

\* whitespace at: after {{, after source, after (, after arg1, after the
\* comma, after arg2, after )
Tight == [i \in 1..7 |-> <<>>]
Canon == [i \in 1..7 |-> IF i \in {1, 5, 7} THEN <<" ">> ELSE <<>>]
Spaced == [i \in 1..7 |-> <<" ">>]
Lines == [i \in 1..7 |-> <<"\n", " ">>]
ArgTrail == [i \in 1..7 |-> IF i \in {4, 6} THEN <<" ">> ELSE <<>>]
Layouts == {Tight, Canon, Spaced, Lines, ArgTrail}

Expr(s, t, q1o, q1c, q2o, q2c, ws, braces) ==
    [s |-> s, t |-> t, q1o |-> q1o, q1c |-> q1c, q2o |-> q2o, q2c |-> q2c,
     ws |-> ws, braces |-> braces]

Render(e) ==
    (IF e.braces THEN <<"{{">> \o e.ws[1] ELSE <<>>)
    \o <<"source">> \o e.ws[2] \o <<"(">> \o e.ws[3]
    \o e.q1o \o e.s \o e.q1c \o e.ws[4] \o <<",">> \o e.ws[5]
    \o e.q2o \o e.t \o e.q2c \o e.ws[6] \o <<")">>
    \o (IF e.braces THEN e.ws[7] \o <<"}}">> ELSE <<>>)

RECURSIVE RenderFrom(_, _)
RenderFrom(sh, i) ==
    IF i > Len(sh) THEN <<>>
    ELSE (IF i = 1 THEN <<"select", " ">> ELSE <<"\n">>) \o Render(sh[i]) \o RenderFrom(sh, i + 1)

RenderAll(sh) == RenderFrom(sh, 1)

\* every quoting and layout of one expression
AnyExprs ==
    {Expr(s, t, q1o, q1c, q2o, q2c, ws, b) :
        s \in ArgNames, t \in TableNames,
        q1o \in QuoteOpts, q1c \in QuoteOpts, q2o \in QuoteOpts, q2c \in QuoteOpts,
        ws \in Layouts, b \in BOOLEAN}

\* the expressions of files that hold several: both arguments quoted alike
\* (single, double, mixed), unquoted, or with the opening quote only
PlainExprs ==
    {Expr(s, t, q[1], q[2], q[1], q[2], ws, TRUE) :
        s \in {<<"a">>, <<"a", "b">>}, t \in TableNames,
        q \in {<<<<"'">>, <<"'">>>>, <<<<"\"">>, <<"\"">>>>, <<<<"'">>, <<"\"">>>>,
               <<<<>>, <<>>>>, <<<<"'">>, <<>>>>},
        ws \in {Canon}}

Shapes ==
    {<<e>> : e \in AnyExprs}
    \cup UNION {[1..n -> PlainExprs] : n \in 2..MaxExprs}

GenIdle ==
    /\ fs = <<>>
    /\ fs0 = <<>>
    /\ doc = EmptyDoc
    /\ pc = "text"
    /\ argv = <<>>
    /\ cur = NoCur
    /\ queue = <<>>
    /\ trace = <<>>
    /\ exitCode = -1
    /\ runs = 0
    /\ conf = [source_name |-> <<>>, project_dir |-> <<>>, out_dir |-> <<>>]

InitText ==
    /\ shape \in Shapes
    /\ text = RenderAll(shape)
    /\ target \in Targets
    /\ scanOut = {}
    /\ rwOut = <<>>
    /\ done = {}
    /\ GenIdle

\* get_sources_used_with_source_func on this file: content = f.read(), findall
ScanText ==
    /\ "scan" \notin done
    /\ scanOut' = FileTables(text, target)
    /\ done' = done \cup {"scan"}
    /\ UNCHANGED <<text, shape, target, rwOut>>
    /\ UNCHANGED <<fs, doc, pc, argv, cur, queue, trace, fs0, exitCode, runs, conf>>

\* replace_sources_with_refs on this file: read, replace, write back
RewriteText ==
    /\ "rewrite" \notin done
    /\ rwOut' = ReplaceSourcesWithRefs(text)
    /\ done' = done \cup {"rewrite"}
    /\ UNCHANGED <<text, shape, target, scanOut>>
    /\ UNCHANGED <<fs, doc, pc, argv, cur, queue, trace, fs0, exitCode, runs, conf>>

NextText == ScanText \/ RewriteText

SpecText == InitText /\ [][NextText]_vars

---------------------------------------------------------------------------
(* Properties of the per-file steps (SpecText) *)

SameQuotes(e) == e.q1o = e.q1c /\ e.q2o = e.q2c /\ e.q1o = e.q2o
FullyQuoted(e) == e.q1o # <<>> /\ e.q1c # <<>> /\ e.q2o # <<>> /\ e.q2c # <<>>
OpenQuoted(e) == e.q1o # <<>> /\ e.q2o # <<>>
ShapeExprs == {shape[i] : i \in DOMAIN shape}

RefText(s, t) ==
    <<"{{", " ", "ref", "(", "'", "source", "_">> \o s \o <<"_", "_">> \o t
    \o <<"'", ")", " ", "}}">>

RECURSIVE ExpectedFrom(_, _)
ExpectedFrom(sh, i) ==
    IF i > Len(sh) THEN <<>>
    ELSE (IF i = 1 THEN <<"select", " ">> ELSE <<"\n">>)
         \o RefText(sh[i].s, sh[i].t) \o ExpectedFrom(sh, i + 1)

\* C3: in a file of `{{ source(a, b) }}` expressions, arguments quoted or
\* unquoted, the rewriter replaces each expression by the ref built from its
\* own two arguments and leaves the text between the expressions unchanged;
\* two expressions are never merged into one replacement.
C3_EachOccurrenceRewritten ==
    ("rewrite" \in done
        /\ \A e \in ShapeExprs : e.braces /\ e.ws = Canon /\ SameQuotes(e))
    => rwOut = ExpectedFrom(shape, 1)

\* C5: the scanner reports table t for the file exactly when the file holds a
\* call source(<s>, <t>) with both arguments in quotes (any mix), s being the
\* target source; calls with another first argument contribute nothing.
C5_ExactlyQuotedCalls ==
    "scan" \in done
    => scanOut = {e.t : e \in {x \in ShapeExprs : x.s = target /\ FullyQuoted(x)}}

\* C5 as amended: every fully quoted call on the target source contributes
\* its table; whatever is reported comes from a call whose first argument is
\* exactly the target source and whose two arguments carry an opening quote,
\* the reported name being the table itself when the second argument has its
\* closing quote and starting with it otherwise; without such a call the
\* file is reported under no table.
C5_QuotedCallsReported ==
    "scan" \in done
    => /\ \A e \in ShapeExprs : (e.s = target /\ FullyQuoted(e)) => e.t \in scanOut
       /\ \A x \in scanOut :
            \E e \in ShapeExprs :
                /\ e.s = target
                /\ OpenQuoted(e)
                /\ IsPrefix(e.t, x)
                /\ (e.q2c # <<>> => x = e.t)

C5_Witness ==
    /\ "scan" \in done
    /\ Len(shape) = 2
    /\ shape[1].s = target /\ shape[1].q1o # shape[1].q1c /\ FullyQuoted(shape[1])
    /\ shape[2].s # target /\ IsPrefix(target, shape[2].s) /\ FullyQuoted(shape[2])
    /\ shape[1].t # shape[2].t
    /\ scanOut = {shape[1].t}

\* C10: for one `{{ source(s, t) }}` expression in any quoting form and any
\* whitespace layout, the rewriter turns it into {{ ref('source_s__t') }}
\* if and only if the scanner run for s reports t for the same text.
C10_ScannerRewriterAgree ==
    ("scan" \in done /\ "rewrite" \in done /\ Len(shape) = 1
        /\ shape[1].braces /\ shape[1].s = target)
    => ((rwOut = ExpectedFrom(shape, 1)) <=> (shape[1].t \in scanOut))

---------------------------------------------------------------------------
(* Properties of the processes (Spec) *)

IsGenRun == cur.mode \in {"used_sources", "yaml"}

StagingStem(s, t) == <<"source", "_">> \o s \o <<"_", "_">> \o t
StagingName(s, t) == StagingStem(s, t) \o <<".sql">>

HasMarker(out) == \E p \in 1..Len(out) : IsAt(out, p, Marker)

EventSet(kind) == {trace[i] : i \in {j \in DOMAIN trace : trace[j].ev = kind}}

SameAsBefore(p) ==
    IF p \in DOMAIN fs0 THEN p \in DOMAIN fs /\ fs[p] = fs0[p] ELSE p \notin DOMAIN fs

\* C1: in both generator loops a table whose dbt output lacks `with source`
\* gets a warning and no write (a file already there keeps its content),
\* every table whose output holds the marker has its file written, and the
\* run visits every table and ends normally however many tables failed.
C1_FailedTablesIsolated ==
    IsGenRun =>
        LET inv == Events("invoke")
        IN  /\ \A i \in DOMAIN inv :
                LET p == Path(cur.output_dir, StagingName(cur.source_name, inv[i].t))
                IN  IF HasMarker(inv[i].txt)
                    THEN /\ \E w \in EventSet("write") : w.path = p
                         /\ p \in DOMAIN fs
                         /\ IsPrefix(Marker, fs[p])
                    ELSE /\ \E w \in EventSet("warning") : w.t = inv[i].t
                         /\ ~ \E w \in EventSet("write") : w.path = p
                         /\ SameAsBefore(p)
            /\ Len(inv) = Len(cur.tables) - Len(queue)
            /\ (pc = "idle" => exitCode = 0 /\ Len(inv) = Len(cur.tables))

C1_Witness ==
    /\ IsGenRun /\ pc = "idle" /\ exitCode = 0
    /\ \E e \in EventSet("invoke") :
            /\ ~HasMarker(e.txt)
            /\ Path(cur.output_dir, StagingName(cur.source_name, e.t)) \in DOMAIN fs0
    /\ \E e \in EventSet("invoke") : HasMarker(e.txt)

\* C2: a rewriter run writes a .sql file back only if at least one full
\* `{{ source(a, b) }}` expression was matched and replaced in it.
C2_WrittenOnlyIfMatched ==
    cur.mode = "rewriter" =>
        \A w \in EventSet("rw_write") : \E r \in EventSet("replace") : r.path = w.path

\* C4: in used_sources mode the scanner never reports a file lying under
\* the output directory the staging files are written to.
C4_OutputDirNeverScanned ==
    cur.mode = "used_sources" =>
        \A t \in DOMAIN cur.used_sources :
            \A p \in cur.used_sources[t] : ~IsPrefix(cur.output_dir, p.dir)

\* C4 as amended: the scanner never reports a file that lies, below the
\* scanned directory, in or under a sub-directory named `sources`, at any
\* depth; staging files written there by an earlier run are not reported.
C4_SourcesDirsNeverScanned ==
    cur.mode = "used_sources" =>
        \A t \in DOMAIN cur.used_sources :
            \A p \in cur.used_sources[t] :
                /\ IsPrefix(cur.directory, p.dir)
                /\ \A i \in (Len(cur.directory) + 1)..Len(p.dir) : p.dir[i] # "sources"

C4_Witness ==
    /\ cur.mode = "used_sources"
    /\ DOMAIN cur.used_sources # {}
    /\ IsPrefix(cur.directory, cur.output_dir)
    /\ \E i \in (Len(cur.directory) + 1)..Len(cur.output_dir) : cur.output_dir[i] = "sources"
    /\ \E p \in DOMAIN fs0 :
            /\ p.dir = cur.output_dir
            /\ \E t \in DOMAIN cur.used_sources : p.name = StagingName(cur.source_name, t)
            /\ FileTables(fs0[p], cur.source_name) # {}

NArgs(a) == Len(a) - 1

WrongArgs(a) ==
    \/ NArgs(a) < 2
    \/ a[2] \notin {"used_sources", "yaml", "yml"}
    \/ a[2] = "used_sources" /\ NArgs(a) # 4
    \/ a[2] \in {"yaml", "yml"} /\ NArgs(a) # 3

IsGeneratorProcess == runs > 0 /\ Len(argv) > 0 /\ argv[1] = GeneratorScript

\* C6: a generator process started with a wrong argument count for its mode
\* or with an unknown mode logs an error, exits with status 1 and does
\* nothing else: no scan, no document load, no mkdir, no dbt call, no write.
C6_BadArgsNoWork ==
    (IsGeneratorProcess /\ WrongArgs(argv)) =>
        /\ pc = "idle"
        /\ exitCode = 1
        /\ Len(trace) = 1 /\ trace[1].ev = "error"
        /\ fs = fs0

C6_Witness ==
    /\ IsGeneratorProcess
    /\ Len(argv) = 4 /\ argv[2] = "used_sources"
    /\ exitCode = 1
    /\ runs = 2 /\ fs = fs0 /\ \E p \in DOMAIN fs : p.dir = conf.out_dir

Declared(d, s) ==
    LET idx == {i \in DOMAIN d.sources : d.sources[i].name = s}
    IN  IF idx = {} THEN <<>>
        ELSE LET ts == d.sources[CHOOSE i \in idx : TRUE].tables
             IN  [j \in DOMAIN ts |-> ts[j].name]

C8_NamesAgree ==
    /\ IsGenRun =>
            \A w \in EventSet("write") :
                w.path = Path(IF argv[2] = "used_sources" THEN argv[5] ELSE argv[4].dir,
                              StagingName(w.s, w.t))
    /\ cur.mode = "rewriter" =>
            \A r \in EventSet("replace") :
                /\ r.txt = <<"{{", " ", "ref", "(", "'">> \o StagingStem(r.s, r.t)
                           \o <<"'", ")", " ", "}}">>
                /\ UsedFileName(r.s, r.t) = StagingStem(r.s, r.t) \o <<".sql">>
                /\ YmlFileName(r.s, r.t) = StagingStem(r.s, r.t) \o <<".sql">>

C8_Witness ==
    /\ cur.mode = "rewriter"
    /\ \E r \in EventSet("replace") :
            \E p \in DOMAIN fs0 : p.dir = conf.out_dir /\ p.name = StagingName(r.s, r.t)

NoSourceCall(txt) ==
    ~ \E i \in 1..Len(txt) :
        /\ txt[i] = "source"
        /\ LET j == i + 1 + RunLen(txt, i + 1, WS) IN j <= Len(txt) /\ txt[j] = "("

\* C9: a file without any source(...) call (one that holds only ref(...)
\* expressions) is neither selected nor written by a rewriter pass and keeps
\* its content; a pass over a tree whose .sql files hold no source(...) call
\* changes no file.
C9_RewrittenFilesUntouched ==
    cur.mode = "rewriter" =>
        /\ \A p \in DOMAIN fs0 :
                NoSourceCall(fs0[p]) =>
                    /\ ~ \E e \in EventSet("select") \cup EventSet("rw_write") : e.path = p
                    /\ fs[p] = fs0[p]
        /\ (\A p \in DOMAIN fs0 : EndsWithSql(p.name) => NoSourceCall(fs0[p]))
                => fs = fs0 /\ EventSet("rw_write") = {}

C9_Witness ==
    /\ cur.mode = "rewriter" /\ runs = 2
    /\ \A p \in DOMAIN fs0 : EndsWithSql(p.name) => NoSourceCall(fs0[p])
    /\ \E p \in DOMAIN fs0 : \E i \in DOMAIN fs0[p] : fs0[p][i] = "ref"
    /\ fs = fs0

===========================================================================
